---------------------------- MODULE Spec2Model ----------------------------
(***************************************************************************)
(* Model of package monitor (src/monitor.go): the LatencyTracker, its      *)
(* functional options, the lazily built process-wide defaultTracker and    *)
(* the Track operation, which measures a duration and hands a logging      *)
(* closure to threading.GoSafe.                                            *)
(*                                                                         *)
(* Every Track call runs on its caller's goroutine and is split at each    *)
(* access to shared state (the package variable defaultTracker, the wall   *)
(* clock), so that callers interleave between the nil check of line 70    *)
(* and the assignment of line 71.  A read of the pointer-sized variable   *)
(* observes a value some goroutine wrote, and a tracker read through the   *)
(* pointer is seen with the fields its constructor stored.                 *)
(*                                                                         *)
(* Function values are modelled by name: "nil", the package's own          *)
(* defaultLogger / defaultContextEnhancer, and one function supplied by    *)
(* the user.  What a user logger does when it is invoked (return, panic,   *)
(* never return) is chosen at each invocation.                             *)
(***************************************************************************)
EXTENDS Integers, Sequences, FiniteSets

\* Number of Track invocations (each on its own goroutine) and of operation names.
NumCalls == 2
\* Last instant of the wall clock.
MaxTime == 1
\* Diagnostics the execution facility may route through the log sink, per work item.
MaxDiag == 1
\* Largest time.Duration (an int64 count of nanoseconds), scaled down.
MaxDuration == 2
\* Longest option list handed to NewLatencyTracker.
MaxOpts == 3

Calls == 1..NumCalls
Names == 1..NumCalls
\* The call that is given every input, and a plain call racing with it.
Solo == CHOOSE c \in Calls : \A d \in Calls : c <= d
Peer == CHOOSE c \in Calls : \A d \in Calls : d <= c

MinDuration == -MaxDuration - 1

Contexts == {"nil", "background", "reqCtx"}
\* Start times: far in the past, about now, far in the future.
StartTimes == {-(MaxDuration + 1), 1, MaxDuration + MaxTime + 2}
LoggerArgs == {"nil", "userLogger"}
EnhancerArgs == {"nil", "userEnhancer"}
PanicValue == "logger panic"

VARIABLES
    defaultTracker, \* 0 (nil) or the address in heap of a *LatencyTracker
    heap,           \* the trackers Track has allocated, by address
    now,            \* the wall clock
    pc,             \* where each Track call stands in its caller's goroutine
    frame,          \* the arguments and local variables of each Track call
    task,           \* the state of the work item each call handed to GoSafe
    log,            \* per call, the logger invocations made for it, in order
    userTracker     \* the tracker last built explicitly, with its options

vars == <<defaultTracker, heap, now, pc, frame, task, log, userTracker>>

----------------------------------------------------------------------------
(* Options and construction, lines 17-53 *)

WithLogger(logger) == [field |-> "logger", value |-> logger]

WithContextEnhancer(enhancer) == [field |-> "contextEnhancer", value |-> enhancer]

\* opt(lt): the closure an option returns assigns one field.
ApplyOption(lt, opt) ==
    IF opt.field = "logger"
    THEN [lt EXCEPT !.logger = opt.value]
    ELSE [lt EXCEPT !.contextEnhancer = opt.value]

RECURSIVE ApplyOptions(_, _)
ApplyOptions(lt, opts) ==
    IF opts = <<>> THEN lt
    ELSE ApplyOptions(ApplyOption(lt, Head(opts)), Tail(opts))

\* A constructor that forgets to install the defaults.
NewLatencyTrackerNoDefaults(opts) ==
    ApplyOptions([logger |-> "nil", contextEnhancer |-> "nil"], opts)

NewLatencyTracker(opts) ==
    ApplyOptions([logger |-> "defaultLogger",
                  contextEnhancer |-> "defaultContextEnhancer"], opts)

Options ==
    {WithLogger(l) : l \in LoggerArgs}
        \cup {WithContextEnhancer(e) : e \in EnhancerArgs}

RECURSIVE OptionLists(_)
OptionLists(n) ==
    IF n = 0 THEN {<<>>}
    ELSE LET shorter == OptionLists(n - 1)
         IN  shorter \cup {Append(s, o) : s \in {t \in shorter : Len(t) = n - 1},
                                          o \in Options}

----------------------------------------------------------------------------
(* The functions Track calls *)

\* An enhancer that hands the caller's context through.
passThroughEnhancer(ctx) == ctx

\* Line 62-65: whatever the caller passed, context.Background().
defaultContextEnhancer(ctx) == "background"

\* enhancer(ctx) for a function value; calling a nil function panics.
CallEnhancer(enhancer, ctx) ==
    CASE enhancer = "defaultContextEnhancer" -> defaultContextEnhancer(ctx)
      [] enhancer = "userEnhancer" -> "userCtx"
      [] OTHER -> "panic"

\* A duration clamped at zero.
SinceClamped(t, startTime) ==
    IF t - startTime < 0 THEN 0 ELSE t - startTime

\* time.Since(startTime) with the clock reading t: Time.Sub returns t - startTime,
\* or the minimum / maximum Duration when the difference does not fit one.
Since(t, startTime) ==
    LET d == t - startTime
    IN  IF d > MaxDuration THEN MaxDuration
        ELSE IF d < MinDuration THEN MinDuration
        ELSE d

\* A resolution that ignores the argument.
ResolveLoggerIgnoringArg(logger, lt) == lt.logger

\* Lines 75-77.
ResolveLogger(logger, lt) ==
    IF logger = "nil" THEN lt.logger ELSE logger

\* What invoking a logger function can do.  defaultLogger (line 56-59) prints and
\* returns; a nil function value panics; a user's function may do anything.
Outcomes(logger) ==
    CASE logger = "defaultLogger" -> {"returned"}
      [] logger = "userLogger" -> {"returned", "panicked", "blocked"}
      [] OTHER -> {"panicked"}

\* One invocation logger(ctx, format, args...) and how it ended.
Invocation(logger, ctx, kind, name, duration, err, outcome) ==
    [sink |-> logger, ctx |-> ctx, kind |-> kind, name |-> name,
     duration |-> duration, err |-> err, outcome |-> outcome]

\* The invocations made for call c, with one more; a nil function receives nothing.
Logged(c, inv) ==
    IF inv.sink = "nil" THEN log ELSE [log EXCEPT ![c] = Append(@, inv)]

\* Line 88, the body of the work item.
CompletedLine(c, outcome) ==
    Invocation(frame[c].logger, frame[c].enhancedCtx, "completed",
               frame[c].name, frame[c].duration, "none", outcome)

\* Line 96, the recovery callback, r being the recovered value.
LogErrorLine(c, r, outcome) ==
    Invocation(frame[c].logger, frame[c].enhancedCtx, "logError",
               frame[c].name, frame[c].duration, r, outcome)

\* Line 93, the log sink.
DiagLine(c, outcome) ==
    Invocation(frame[c].logger, frame[c].enhancedCtx, "diag",
               frame[c].name, 0, "none", outcome)

----------------------------------------------------------------------------
\* The value of userTracker before any tracker has been built.
NoTracker == [logger |-> "nil", contextEnhancer |-> "nil"]

NoFrame ==
    [ctx |-> "nil", startTime |-> 0, name |-> 0, loggerArg |-> "nil",
     logger |-> "nil", callTime |-> 0, duration |-> 0, enhancedCtx |-> "nil"]

Init ==
    /\ defaultTracker = 0
    /\ heap = <<>>
    /\ now = 0
    /\ pc = [c \in Calls |-> "idle"]
    /\ frame = [c \in Calls |-> NoFrame]
    /\ task = [c \in Calls |-> "none"]
    /\ log = [c \in Calls |-> <<>>]
    /\ userTracker = [opts |-> <<>>, lt |-> NoTracker, built |-> FALSE]

\* Line 68: a goroutine calls Track(ctx, startTime, name, logger).
Enter(c, ctx, startTime, name, logger) ==
    /\ pc[c] = "idle"
    /\ pc' = [pc EXCEPT ![c] = "check"]
    /\ frame' = [frame EXCEPT ![c] = [NoFrame EXCEPT !.ctx = ctx,
                                                     !.startTime = startTime,
                                                     !.name = name,
                                                     !.loggerArg = logger]]
    /\ UNCHANGED <<defaultTracker, heap, now, task, log, userTracker>>

\* Line 70: if defaultTracker == nil.
CheckTracker(c) ==
    /\ pc[c] = "check"
    /\ pc' = [pc EXCEPT ![c] = IF defaultTracker = 0 THEN "init" ELSE "resolve"]
    /\ UNCHANGED <<defaultTracker, heap, now, frame, task, log, userTracker>>

\* Line 71: defaultTracker = NewLatencyTracker().
InitTracker(c) ==
    /\ pc[c] = "init"
    /\ heap' = Append(heap, NewLatencyTracker(<<>>))
    /\ defaultTracker' = Len(heap) + 1
    /\ pc' = [pc EXCEPT ![c] = "resolve"]
    /\ UNCHANGED <<now, frame, task, log, userTracker>>

\* Lines 75-77: logger = defaultTracker.logger when none was given.
Resolve(c) ==
    /\ pc[c] = "resolve"
    /\ frame' = [frame EXCEPT ![c].logger =
                    ResolveLogger(frame[c].loggerArg, heap[defaultTracker])]
    /\ pc' = [pc EXCEPT ![c] = "measure"]
    /\ UNCHANGED <<defaultTracker, heap, now, task, log, userTracker>>

\* Line 80: duration := time.Since(startTime).
Measure(c) ==
    /\ pc[c] = "measure"
    /\ frame' = [frame EXCEPT ![c].callTime = now,
                              ![c].duration = Since(now, frame[c].startTime)]
    /\ pc' = [pc EXCEPT ![c] = "enhance"]
    /\ UNCHANGED <<defaultTracker, heap, now, task, log, userTracker>>

\* Line 83: enhancedCtx := defaultTracker.contextEnhancer(ctx).
Enhance(c) ==
    /\ pc[c] = "enhance"
    /\ LET e == CallEnhancer(heap[defaultTracker].contextEnhancer, frame[c].ctx)
       IN  IF e = "panic"
           THEN /\ pc' = [pc EXCEPT ![c] = "panicked"]
                /\ UNCHANGED frame
           ELSE /\ pc' = [pc EXCEPT ![c] = "submit"]
                /\ frame' = [frame EXCEPT ![c].enhancedCtx = e]
    /\ UNCHANGED <<defaultTracker, heap, now, task, log, userTracker>>

\* Track running its logging closure itself before it returns.
SubmitInline(c) ==
    /\ pc[c] = "submit"
    /\ \E o \in Outcomes(frame[c].logger) :
          /\ log' = Logged(c, CompletedLine(c, o))
          /\ pc' = [pc EXCEPT ![c] = o]
          /\ task' = [task EXCEPT ![c] = IF o = "returned" THEN "done" ELSE "none"]
    /\ UNCHANGED <<defaultTracker, heap, now, frame, userTracker>>

\* Track returning without having handed anything to the facility.
SubmitNothing(c) ==
    /\ pc[c] = "submit"
    /\ pc' = [pc EXCEPT ![c] = "returned"]
    /\ UNCHANGED <<defaultTracker, heap, now, frame, task, log, userTracker>>

\* Lines 86-98: threading.GoSafe(...) starts the work item elsewhere and Track returns.
Submit(c) ==
    /\ pc[c] = "submit"
    /\ task' = [task EXCEPT ![c] = "ready"]
    /\ pc' = [pc EXCEPT ![c] = "returned"]
    /\ UNCHANGED <<defaultTracker, heap, now, frame, log, userTracker>>

\* A work item that logs its line twice.
RunWorkItemTwice(c) ==
    /\ task[c] = "ready"
    /\ \E o \in Outcomes(frame[c].logger) :
          /\ log' = [log EXCEPT ![c] = @ \o <<CompletedLine(c, o), CompletedLine(c, o)>>]
          /\ task' = [task EXCEPT ![c] = CASE o = "returned" -> "done"
                                           [] o = "panicked" -> "recovering"
                                           [] OTHER -> "blocked"]
    /\ UNCHANGED <<defaultTracker, heap, now, pc, frame, userTracker>>

\* Lines 86-90 on the worker: the work item calls the logger and returns nil; the
\* facility recovers a panic of the work item and goes on to the recovery callback.
RunWorkItem(c) ==
    /\ task[c] = "ready"
    /\ \E o \in Outcomes(frame[c].logger) :
          /\ log' = Logged(c, CompletedLine(c, o))
          /\ task' = [task EXCEPT ![c] = CASE o = "returned" -> "done"
                                           [] o = "panicked" -> "recovering"
                                           [] OTHER -> "blocked"]
    /\ UNCHANGED <<defaultTracker, heap, now, pc, frame, userTracker>>

\* Lines 95-97 on the worker: the recovery callback calls the same logger.  A panic
\* of the callback itself is not one the facility has promised to contain.
Recover(c) ==
    /\ task[c] = "recovering"
    /\ \E o \in Outcomes(frame[c].logger) :
          /\ log' = Logged(c, LogErrorLine(c, PanicValue, o))
          /\ task' = [task EXCEPT ![c] = CASE o = "returned" -> "done"
                                           [] o = "panicked" -> "escaped"
                                           [] OTHER -> "blocked"]
    /\ UNCHANGED <<defaultTracker, heap, now, pc, frame, userTracker>>

Diags(c) == Len(SelectSeq(log[c], LAMBDA inv : inv.kind = "diag"))

\* Lines 91-94 on the worker: the facility writes a diagnostic of its own through
\* the log sink while the work item is in its hands.  The facility is taken to
\* survive a sink that panics; a sink that never returns holds the worker.
GoSafeLog(c) ==
    /\ task[c] \in {"ready", "recovering"}
    /\ Diags(c) < MaxDiag
    /\ \E o \in Outcomes(frame[c].logger) :
          /\ log' = Logged(c, DiagLine(c, o))
          /\ task' = [task EXCEPT ![c] = IF o = "blocked" THEN "blocked" ELSE task[c]]
    /\ UNCHANGED <<defaultTracker, heap, now, pc, frame, userTracker>>

\* Time passes.
Tick ==
    /\ now < MaxTime
    /\ now' = now + 1
    /\ UNCHANGED <<defaultTracker, heap, pc, frame, task, log, userTracker>>

\* Lines 41-53 called by a user of the package.
NewTracker(opts) ==
    /\ userTracker' = [opts |-> opts, lt |-> NewLatencyTracker(opts), built |-> TRUE]
    /\ UNCHANGED <<defaultTracker, heap, now, pc, frame, task, log>>

----------------------------------------------------------------------------
\* The caller's goroutine inside Track.
Caller(c) ==
    \/ CheckTracker(c)
    \/ InitTracker(c)
    \/ Resolve(c)
    \/ Measure(c)
    \/ Enhance(c)
    \/ Submit(c)

\* The facility's worker.
Worker(c) ==
    \/ RunWorkItem(c)
    \/ Recover(c)

\* The inputs of the calls of Spec: everything for Solo, a plain call for Peer.
ContextsOf(c) == IF c = Solo THEN Contexts ELSE {"reqCtx"}
StartTimesOf(c) == IF c = Solo THEN StartTimes ELSE {0}
NamesOf(c) == IF c = Solo THEN Names ELSE {c}
LoggerArgsOf(c) == IF c = Solo THEN LoggerArgs ELSE {"nil"}

\* One Track call with every input and a plain one racing with it, the clock
\* running.
Next ==
    \/ \E c \in {Solo, Peer} :
          \/ \E ctx \in ContextsOf(c), st \in StartTimesOf(c),
                 nm \in NamesOf(c), lg \in LoggerArgsOf(c) :
                Enter(c, ctx, st, nm, lg)
          \/ Caller(c)
          \/ Worker(c)
    \/ GoSafeLog(Solo)
    \/ Tick

Spec == Init /\ [][Next]_vars

\* One Track call with every input, on its own.
SoloNext ==
    \/ \E ctx \in Contexts, st \in StartTimes, nm \in Names, lg \in LoggerArgs :
          Enter(Solo, ctx, st, nm, lg)
    \/ Caller(Solo)
    \/ Worker(Solo)
    \/ GoSafeLog(Solo)
    \/ Tick

\* The caller's goroutine and the worker are both scheduled.
FairSpec ==
    Init /\ [][SoloNext]_vars /\ WF_vars(Caller(Solo)) /\ WF_vars(Worker(Solo))

\* Concurrent Track calls, each with its own name.
ConcNext ==
    \E c \in Calls :
        \/ \E lg \in LoggerArgs : Enter(c, "reqCtx", 0, c, lg)
        \/ Caller(c)
        \/ Worker(c)

ConcSpec == Init /\ [][ConcNext]_vars

\* The callers' goroutines are scheduled; nothing is assumed of the workers.
CallerFairSpec == ConcSpec /\ \A c \in Calls : WF_vars(Caller(c))

\* Callers and workers are all scheduled.
FairConcSpec == ConcSpec /\ \A c \in Calls : WF_vars(Caller(c)) /\ WF_vars(Worker(c))

\* Explicit construction beside one Track call.
CtorNext ==
    \/ \E opts \in OptionLists(MaxOpts) : NewTracker(opts)
    \/ \E lg \in LoggerArgs : Enter(Solo, "reqCtx", 0, Solo, lg)
    \/ Caller(Solo)
    \/ Worker(Solo)

CtorSpec == Init /\ [][CtorNext]_vars

----------------------------------------------------------------------------
(* Properties *)

\* The logger invocations made for call c that returned with a latency line.
LatencyLines(c) ==
    SelectSeq(log[c], LAMBDA inv : /\ inv.kind \in {"completed", "logError"}
                                   /\ inv.outcome = "returned")

Invocations(c, kind) == SelectSeq(log[c], LAMBDA inv : inv.kind = kind)

Returned(c, kind) ==
    SelectSeq(log[c], LAMBDA inv : inv.kind = kind /\ inv.outcome = "returned")

\* C1: under fair scheduling of caller and worker, every call Track(ctx, S, N, nil)
\* leads to a "completed" line that the logger has written, carrying N and the
\* duration Track computed when it was called.
C1_CompletedEventually ==
    \A c \in Calls :
        (pc[c] = "check" /\ frame[c].loggerArg = "nil")
            ~> (\E i \in DOMAIN log[c] :
                    /\ log[c][i].kind = "completed"
                    /\ log[c][i].outcome = "returned"
                    /\ log[c][i].name = frame[c].name
                    /\ log[c][i].duration = frame[c].duration
                    /\ frame[c].callTime <= now)

C1_Witness ==
    /\ frame[Solo].loggerArg = "nil"
    /\ task[Solo] = "done"
    /\ Len(Returned(Solo, "completed")) = 1
    /\ frame[Solo].callTime < now

C3_OneLogErrorLine ==
    \A c \in Calls :
        (/\ task[c] \in {"done", "escaped"}
         /\ \E i \in DOMAIN log[c] :
               log[c][i].kind = "completed" /\ log[c][i].outcome = "panicked"
         /\ Len(Invocations(c, "logError")) > 0)
            => /\ Len(Returned(c, "logError")) = 1
               /\ Len(Returned(c, "completed")) = 0
               /\ \A i \in DOMAIN log[c] :
                     log[c][i].kind = "logError"
                        => /\ log[c][i].name = frame[c].name
                           /\ log[c][i].duration = frame[c].duration
                           /\ log[c][i].err = PanicValue

\* C4: no Track call ends in a panic on its caller's goroutine, and no panic leaves
\* the worker.
C4_NothingSurfaces ==
    \A c \in Calls : pc[c] # "panicked" /\ task[c] # "escaped"

\* C5: Track builds the default tracker at most once, and a defaultTracker that
\* holds a tracker keeps holding that same tracker.
C5_BuiltOnce ==
    [][/\ Len(heap') <= 1
       /\ defaultTracker # 0 => defaultTracker' = defaultTracker]_vars

\* C6: every logger invocation made for a call (completed, logError, diagnostic)
\* goes to the logger argument when there is one, and then to no default tracker's
\* logger; without an argument it goes to the default tracker's logger.
C6_LoggerResolution ==
    \A c \in Calls : \A i \in DOMAIN log[c] :
        IF frame[c].loggerArg # "nil"
        THEN /\ log[c][i].sink = frame[c].loggerArg
             /\ \A k \in DOMAIN heap : log[c][i].sink # heap[k].logger
        ELSE /\ defaultTracker # 0
             /\ log[c][i].sink = heap[defaultTracker].logger
             /\ log[c][i].sink = "defaultLogger"

C6_Witness ==
    /\ frame[Solo].loggerArg = "userLogger"
    /\ Len(Invocations(Solo, "completed")) = 1
    /\ Len(Invocations(Solo, "logError")) = 1
    /\ Len(Invocations(Solo, "diag")) = 1

\* C7 as stated: the context every logger invocation receives is the background
\* context and is never the context the caller passed to Track.
C7_NeverCallersContext ==
    \A c \in Calls : \A i \in DOMAIN log[c] :
        /\ log[c][i].ctx = "background"
        /\ log[c][i].ctx # frame[c].ctx

\* C7: the context every logger invocation receives is what the default tracker's
\* enhancer returns for the caller's context, which is the background context
\* whatever the caller passed; it differs from the caller's context unless the
\* caller passed the background context itself.
C7_EnhancedContext ==
    \A c \in Calls : \A i \in DOMAIN log[c] :
        /\ defaultTracker # 0
        /\ log[c][i].ctx =
              CallEnhancer(heap[defaultTracker].contextEnhancer, frame[c].ctx)
        /\ log[c][i].ctx = "background"
        /\ frame[c].ctx # "background" => log[c][i].ctx # frame[c].ctx

C7_Witness ==
    /\ frame[Solo].ctx = "reqCtx"
    /\ Len(Invocations(Solo, "completed")) = 1
    /\ Len(Invocations(Solo, "logError")) = 1
    /\ Len(Invocations(Solo, "diag")) = 1

\* Whether the last option of opts that sets field f sets it to nil.
LastSetsNil(opts, f) ==
    \E i \in DOMAIN opts :
        /\ opts[i].field = f
        /\ opts[i].value = "nil"
        /\ \A j \in (i + 1)..Len(opts) : opts[j].field # f

DefaultTrackersComplete ==
    \A k \in DOMAIN heap :
        heap[k].logger # "nil" /\ heap[k].contextEnhancer # "nil"

\* C8 as stated: whatever options it was given, a tracker NewLatencyTracker has
\* returned has a logger and a context enhancer, and so has every default tracker.
C8_FieldsNeverNil ==
    /\ userTracker.built
          => userTracker.lt.logger # "nil" /\ userTracker.lt.contextEnhancer # "nil"
    /\ DefaultTrackersComplete

\* C8: a field of the tracker NewLatencyTracker returns is nil exactly when the
\* last option that sets the field passed nil, so a tracker built from options
\* that pass no nil has both; every default tracker has both.
C8_FieldsNilOnlyByOption ==
    /\ userTracker.built
          => /\ (userTracker.lt.logger = "nil")
                    <=> LastSetsNil(userTracker.opts, "logger")
             /\ (userTracker.lt.contextEnhancer = "nil")
                    <=> LastSetsNil(userTracker.opts, "contextEnhancer")
    /\ DefaultTrackersComplete

C8_Witness ==
    /\ userTracker.built
    /\ userTracker.opts = <<WithLogger("nil"), WithLogger("userLogger")>>
    /\ userTracker.lt.logger = "userLogger"
    /\ userTracker.lt.contextEnhancer = "defaultContextEnhancer"
    /\ defaultTracker # 0

\* C9: with the caller's goroutine scheduled and nothing assumed of the worker,
\* every Track call returns, whether or not its logger is ever invoked or returns.
C9_TrackReturns ==
    \A c \in Calls : (pc[c] = "check") ~> (pc[c] = "returned")

C9_Witness ==
    /\ pc[Solo] = "returned"
    /\ task[Solo] = "ready"
    /\ log[Solo] = <<>>
    /\ pc[Peer] = "returned"
    /\ task[Peer] = "blocked"

\* C10 as stated: a latency line's duration is exactly the clock reading of the
\* call minus startTime.
C10_ExactDifference ==
    \A c \in Calls : \A i \in DOMAIN log[c] :
        log[c][i].kind \in {"completed", "logError"}
            => log[c][i].duration = frame[c].callTime - frame[c].startTime

\* C10: a latency line's duration is the clock reading of the call minus startTime,
\* replaced by the largest or smallest Duration when it lies beyond them; it does
\* not depend on when the line is written, and it is negative, not zero, when
\* startTime is later than the call.
C10_SaturatedDifference ==
    \A c \in Calls : \A i \in DOMAIN log[c] :
        log[c][i].kind \in {"completed", "logError"}
            => LET d == frame[c].callTime - frame[c].startTime
               IN  /\ (MinDuration <= d /\ d <= MaxDuration) => log[c][i].duration = d
                   /\ d > MaxDuration => log[c][i].duration = MaxDuration
                   /\ d < MinDuration => log[c][i].duration = MinDuration
                   /\ d < 0 => log[c][i].duration < 0

C10_Witness ==
    /\ Len(Returned(Solo, "completed")) = 1
    /\ frame[Solo].startTime > frame[Solo].callTime
    /\ Returned(Solo, "completed")[1].duration = -1
    /\ frame[Solo].callTime < now

=============================================================================
